---- MODULE Spec2Model ----
(***************************************************************************)
(* Model of the render context of src/my_lib.rs: struct State, its         *)
(* construction (State::new_async) and its two operations State::resize    *)
(* and State::render.  The GPU library is the environment: every call the  *)
(* code makes on the surface, device, encoder, render pass and queue is    *)
(* recorded, in program order, in `calls`, and the answer of               *)
(* Surface::get_current_texture is chosen by the environment.              *)
(*                                                                         *)
(* f32 values are written in tenths (0.5 is 5, 1.0 is 10).                 *)
(***************************************************************************)
EXTENDS Integers, Sequences, FiniteSets

\* ------------------------------------------------------------------ bounds
\* largest window width / height the event loop reports
MaxDim == 2
\* number of render() calls explored
MaxRenders == 3
\* longest format list the adapter reports
MaxFormats == 2

\* --------------------------------------------------------------- constants
\* const VERTICES (position, color), in tenths
VERTICES ==
  << [position |-> <<0, 5, 0>>,   color |-> <<10, 0, 0>>],
     [position |-> <<-5, -5, 0>>, color |-> <<0, 10, 0>>],
     [position |-> <<5, -5, 0>>,  color |-> <<0, 0, 10>>] >>

ClearColor_black == [r |-> 0, g |-> 0, b |-> 0, a |-> 10]

\* wgpu::Color of LoadOp::Clear in render(), in tenths
ClearColor == [r |-> 1, g |-> 2, b |-> 3, a |-> 10]

\* texture formats an adapter may report; is_srgb tells the sRGB ones
Formats == {"Bgra8Unorm", "Bgra8UnormSrgb", "Rgba8UnormSrgb"}

is_srgb(f) == f \in {"Bgra8UnormSrgb", "Rgba8UnormSrgb"}

\* the values Surface::get_current_texture can answer with:
\* Ok(texture) (optimal or suboptimal) or Err(SurfaceError)
AcquireOk == {"Good", "Suboptimal"}

AcquireErr == {"Timeout", "Outdated", "Lost", "OutOfMemory"}

AcquireStatus == AcquireOk \cup AcquireErr

\* PhysicalSize<u32> values within the bound
Sizes == [width : 0..MaxDim, height : 0..MaxDim]

\* surface_caps.formats: a non-empty ordered list
FormatLists ==
  UNION { [1..n -> Formats] : n \in 1..MaxFormats }

\* ------------------------------------------------------------------- state
VARIABLES
  size,             \* State.size
  config,           \* State.config
  render_pipeline,  \* State.render_pipeline
  vertex_buffer,    \* State.vertex_buffer
  num_vertices,     \* State.num_vertices
  surface,          \* State.surface: what the surface was last configured with
  op,               \* the operation that ran last, with its arguments
  calls,            \* the GPU calls that operation made, in program order
  result,           \* what that operation returned: "Ok", "Err" or "panic"
  aborted,          \* a panic has unwound out of render()
  last_resize,      \* the argument of the last resize() call, if any
  n_render,         \* number of render() calls made so far
  n_ok,             \* number of render() calls that returned Ok
  acquired,         \* the textures the surface has handed out, in order
  presented,        \* the textures presented to the surface, in order
  surface_caps      \* the format list the adapter reported at creation

vars == << size, config, render_pipeline, vertex_buffer, num_vertices,
           surface, op, calls, result, aborted, last_resize, n_render,
           n_ok, acquired, presented, surface_caps >>

\* ----------------------------------------------------------------- helpers
\* the positions of `calls` that hold a call named c
CallsNamed(c) == { i \in DOMAIN calls : calls[i].call = c }

\* how many times the last operation made call c
Count(c) == Cardinality(CallsNamed(c))

\* every call named a comes before every call named b
Before(a, b) == \A i \in CallsNamed(a), j \in CallsNamed(b) : i < j

IsDegenerate(s) == s.width = 0 \/ s.height = 0

\* the skip condition the claims speak of (the code keeps no such state): the
\* last resize had a zero dimension, or the stored size has one; each
\* operation records in op.skip whether it held when the operation was called
SkipState ==
  \/ last_resize.called /\ IsDegenerate(last_resize)
  \/ IsDegenerate(size)

\* ------------------------------------------------------------ construction
surface_format_last_srgb(formats) ==
  IF \E i \in DOMAIN formats : is_srgb(formats[i])
  THEN formats[CHOOSE i \in DOMAIN formats :
                 /\ is_srgb(formats[i])
                 /\ \A j \in DOMAIN formats : is_srgb(formats[j]) => j <= i]
  ELSE formats[1]

\* surface_caps.formats.iter().find(|f| f.is_srgb()).copied()
\*   .unwrap_or(surface_caps.formats[0])
surface_format(formats) ==
  IF \E i \in DOMAIN formats : is_srgb(formats[i])
  THEN formats[CHOOSE i \in DOMAIN formats :
                 /\ is_srgb(formats[i])
                 /\ \A j \in DOMAIN formats : is_srgb(formats[j]) => i <= j]
  ELSE formats[1]

\* the SurfaceConfiguration literal of new_async
new_config(window_size, formats) ==
  [ usage |-> "RENDER_ATTACHMENT",
    format |-> surface_format(formats),
    width |-> window_size.width,
    height |-> window_size.height,
    present_mode |-> "Fifo",
    desired_maximum_frame_latency |-> 2 ]

\* the little-endian bytes of an f32, for the values VERTICES uses
\* (0.0 = 0x00000000, 0.5 = 0x3F000000, -0.5 = 0xBF000000, 1.0 = 0x3F800000)
f32_le_bytes(v) ==
  CASE v = 0  -> << 0, 0, 0, 0 >>
    [] v = 5  -> << 0, 0, 0, 63 >>
    [] v = -5 -> << 0, 0, 0, 191 >>
    [] v = 10 -> << 0, 0, 128, 63 >>

RECURSIVE Flatten(_)
\* the concatenation of a sequence of sequences
Flatten(ss) ==
  IF ss = << >> THEN << >> ELSE Head(ss) \o Flatten(Tail(ss))

\* the bytes of one #[repr(C)] Vertex: position then color, no padding
vertex_bytes(v) ==
  Flatten([ k \in 1..6 |-> f32_le_bytes((v.position \o v.color)[k]) ])

\* bytemuck::cast_slice(VERTICES)
cast_slice(vertices) ==
  Flatten([ i \in 1..Len(vertices) |-> vertex_bytes(vertices[i]) ])

new_vertex_buffer_swapped ==
  [ label |-> "Vertex Buffer",
    contents |-> cast_slice(<< VERTICES[1], VERTICES[3], VERTICES[2] >>),
    usage |-> "VERTEX" ]

\* State::new_vertex_buffer
new_vertex_buffer ==
  [ label |-> "Vertex Buffer", contents |-> cast_slice(VERTICES),
    usage |-> "VERTEX" ]

\* std::mem::size_of::<f32>()
size_of_f32 == 4

\* std::mem::size_of::<[f32; 3]>()
size_of_f32x3 == 3 * size_of_f32

\* std::mem::size_of::<Vertex>(): #[repr(C)], two [f32; 3] of alignment 4
size_of_Vertex == size_of_f32x3 + size_of_f32x3

Vertex_desc_color_at_0 ==
  [ array_stride |-> size_of_Vertex,
    step_mode |-> "Vertex",
    attributes |->
      << [offset |-> 0, shader_location |-> 0, format |-> "Float32x3"],
         [offset |-> 0, shader_location |-> 1, format |-> "Float32x3"] >> ]

\* Vertex::desc
Vertex_desc ==
  [ array_stride |-> size_of_Vertex,
    step_mode |-> "Vertex",
    attributes |->
      << [offset |-> 0, shader_location |-> 0, format |-> "Float32x3"],
         [offset |-> size_of_f32x3, shader_location |-> 1,
          format |-> "Float32x3"] >> ]

\* the calls new_async makes on the instance, adapter, surface and device
new_async_calls(formats) ==
  << [call |-> "create_surface"],
     [call |-> "request_adapter"],
     [call |-> "request_device"],
     [call |-> "get_capabilities", formats |-> formats],
     [call |-> "create_shader_module"],
     [call |-> "create_pipeline_layout"],
     [call |-> "create_render_pipeline", format |-> surface_format(formats)],
     [call |-> "create_buffer_init", contents |-> new_vertex_buffer.contents] >>

\* State::new_async: the state struct it returns
new_async(window_size, formats) ==
  /\ size = window_size
  /\ config = new_config(window_size, formats)
  /\ render_pipeline = [ label |-> "Render Pipeline",
                         format |-> surface_format(formats),
                         buffers |-> << Vertex_desc >> ]
  /\ vertex_buffer = new_vertex_buffer
  /\ num_vertices = Len(VERTICES)
  /\ surface = [ configured |-> FALSE, width |-> 0, height |-> 0,
                 format |-> "none" ]
  /\ op = [ name |-> "new", width |-> window_size.width,
            height |-> window_size.height, skip |-> FALSE ]
  /\ calls = new_async_calls(formats)
  /\ result = "Ok"
  /\ aborted = FALSE
  /\ last_resize = [ called |-> FALSE, width |-> 0, height |-> 0 ]
  /\ n_render = 0
  /\ n_ok = 0
  /\ acquired = << >>
  /\ presented = << >>
  /\ surface_caps = formats

Init ==
  \E window_size \in Sizes, formats \in FormatLists :
    new_async(window_size, formats)

\* ------------------------------------------------------------------ resize
\* self.surface.configure(&self.device, &self.config) with config c
configure_call(c) ==
  [ call |-> "configure", width |-> c.width, height |-> c.height,
    format |-> c.format, present_mode |-> c.present_mode ]

\* what Surface::configure leaves in the surface
configured_surface(c) ==
  [ configured |-> TRUE, width |-> c.width, height |-> c.height,
    format |-> c.format ]

valid_size_always(new_size) == TRUE

valid_size_width_only(new_size) == new_size.width > 0

valid_size_either(new_size) == new_size.width > 0 \/ new_size.height > 0

\* the condition of resize: new_size.width > 0 && new_size.height > 0
valid_size(new_size) == new_size.width > 0 /\ new_size.height > 0

resized_config_width_only(c, new_size) ==
  [c EXCEPT !.width = new_size.width]

\* self.config.width = new_size.width; self.config.height = new_size.height
resized_config(c, new_size) ==
  [c EXCEPT !.width = new_size.width, !.height = new_size.height]

resize_calls_twice(c) == << configure_call(c), configure_call(c) >>

\* the GPU calls of resize when the size is valid
resize_calls(c) == << configure_call(c) >>

\* State::resize
resize(new_size) ==
  /\ ~aborted
  /\ IF valid_size(new_size)
     THEN /\ size' = new_size
          /\ config' = resized_config(config, new_size)
          /\ surface' = configured_surface(config')
          /\ calls' = resize_calls(config')
     ELSE /\ UNCHANGED << size, config, surface >>
          /\ calls' = << >>
  /\ op' = [ name |-> "resize", width |-> new_size.width,
             height |-> new_size.height, skip |-> SkipState ]
  /\ result' = "Ok"
  /\ last_resize' = [ called |-> TRUE, width |-> new_size.width,
                      height |-> new_size.height ]
  /\ UNCHANGED << render_pipeline, vertex_buffer, num_vertices, aborted,
                  n_render, n_ok, acquired, presented, surface_caps >>

\* ------------------------------------------------------------------ render
\* self.surface.get_current_texture(), answered with status; the record keeps
\* whether the surface had been configured when the call was made
acquire_call(status, texture) ==
  [ call |-> "get_current_texture", status |-> status, texture |-> texture,
    configured |-> surface.configured ]

draw_commands_per_vertex ==
  << [call |-> "set_pipeline", pipeline |-> render_pipeline],
     [call |-> "set_vertex_buffer", slot |-> 0, buffer |-> vertex_buffer] >>
  \o [ i \in 1..num_vertices |->
         [call |-> "draw", vertices |-> 1, instances |-> 1] ]

\* render_pass.set_pipeline, .set_vertex_buffer(0, ..) and
\* .draw(0..self.num_vertices, 0..1)
draw_commands ==
  << [call |-> "set_pipeline", pipeline |-> render_pipeline],
     [call |-> "set_vertex_buffer", slot |-> 0, buffer |-> vertex_buffer],
     [call |-> "draw", vertices |-> num_vertices, instances |-> 1] >>

\* the textures that the calls cs obtained from get_current_texture
acquired_textures(cs) ==
  LET got == SelectSeq(cs, LAMBDA c : /\ c.call = "get_current_texture"
                                      /\ c.status \in AcquireOk)
  IN [ i \in 1..Len(got) |-> got[i].texture ]

\* the textures that the calls cs presented
presented_textures(cs) ==
  LET shown == SelectSeq(cs, LAMBDA c : c.call = "present")
  IN [ i \in 1..Len(shown) |-> shown[i].texture ]

submit_without_present(texture) ==
  << [call |-> "finish"],
     [call |-> "submit", command_buffers |-> 1] >>

present_then_submit(texture) ==
  << [call |-> "finish"],
     [call |-> "present", texture |-> texture],
     [call |-> "submit", command_buffers |-> 1] >>

\* self.queue.submit(std::iter::once(encoder.finish())); output.present()
submit_and_present(texture) ==
  << [call |-> "finish"],
     [call |-> "submit", command_buffers |-> 1],
     [call |-> "present", texture |-> texture] >>

\* the body of render() after the texture has been acquired; the render pass
\* ends where its scope closes, before encoder.finish()
render_commands(texture) ==
  << [call |-> "create_view", texture |-> texture],
     [call |-> "create_command_encoder", label |-> "Render Encoder"],
     [call |-> "begin_render_pass", view |-> texture, load |-> "Clear",
      color |-> ClearColor, store |-> "Store"] >>
  \o draw_commands
  \o << [call |-> "end_render_pass"] >>
  \o submit_and_present(texture)

propagate_result(status) ==
  IF status \in AcquireOk THEN "Ok" ELSE "Err"

\* what the call ends with, by the answer of get_current_texture:
\* .expect("Failed to acquire texture") panics on Err, and the only return
\* is the final Ok(())
expect_result(status) ==
  IF status \in AcquireOk THEN "Ok" ELSE "panic"

\* State::render
render ==
  /\ ~aborted
  /\ n_render < MaxRenders
  /\ n_render' = n_render + 1
  /\ op' = [ name |-> "render", width |-> 0, height |-> 0,
             skip |-> SkipState ]
  /\ \E status \in AcquireStatus :
       /\ result' = expect_result(status)
       /\ aborted' = (result' = "panic")
       /\ IF status \in AcquireOk
          THEN calls' = << acquire_call(status, n_render') >>
                        \o render_commands(n_render')
          ELSE calls' = << acquire_call(status, n_render') >>
  /\ n_ok' = (IF result' = "Ok" THEN n_ok + 1 ELSE n_ok)
  /\ acquired' = acquired \o acquired_textures(calls')
  /\ presented' = presented \o presented_textures(calls')
  /\ UNCHANGED << size, config, render_pipeline, vertex_buffer, num_vertices,
                  surface, last_resize, surface_caps >>

\* ----------------------------------------------------------- specification
Next ==
  \/ \E new_size \in Sizes : resize(new_size)
  \/ render

Spec == Init /\ [][Next]_vars

\* ------------------------------------------------------------------ claims
\* the acquisitions of the last operation that answered with an error
FailedAcquires ==
  { i \in CallsNamed("get_current_texture") : calls[i].status \in AcquireErr }

\* C1: a render() called while the renderer is in the skip state (last resize
\* degenerate, or stored size with a zero dimension) makes no GPU call at all
\* and returns success.
C1_SkipRenderDoesNoGpuWork ==
  (op.name = "render" /\ op.skip) => (calls = << >> /\ result = "Ok")

\* C2: when the acquisition inside render() answers lost, outdated or timeout,
\* render() configures the surface exactly once with the current size and
\* acquires exactly once more.
C2_ReconfigureAndRetryOnce ==
  ( /\ op.name = "render"
    /\ calls # << >>
    /\ calls[1].call = "get_current_texture"
    /\ calls[1].status \in {"Lost", "Outdated", "Timeout"} )
  => /\ Count("configure") = 1
     /\ \A i \in CallsNamed("configure") :
          calls[i].width = size.width /\ calls[i].height = size.height
     /\ Count("get_current_texture") = 2

\* C3: a render() whose acquisitions all fail returns a recoverable error to
\* its caller without aborting, draws, submits and presents nothing, and leaves
\* size, configuration and the configured surface as they were.
C3_FailedFrameIsRecoverable ==
  [][ ( /\ op'.name = "render"
        /\ n_render' = n_render + 1
        /\ FailedAcquires' # {}
        /\ FailedAcquires' = CallsNamed("get_current_texture")' )
      => /\ result' = "Err"
         /\ ~aborted'
         /\ Count("draw")' = 0
         /\ Count("submit")' = 0
         /\ Count("present")' = 0
         /\ size' = size
         /\ config' = config
         /\ surface' = surface ]_vars

\* C4: every texture acquisition made by render() is made on a surface that a
\* configure call has configured before, also when render() directly follows
\* creation.
C4_AcquireAfterConfigure ==
  \A i \in CallsNamed("get_current_texture") : calls[i].configured

\* C5: after creation and after every resize() or render(), the stored
\* configuration's width and height equal the stored size's.
C5_ConfigMatchesSize ==
  config.width = size.width /\ config.height = size.height

C5_Witness ==
  /\ op.name = "resize"
  /\ op.width = 2 /\ op.height = 1
  /\ size = [width |-> 2, height |-> 1]
  /\ n_render > 0

\* C6: when resize(w,h) with w > 0 and h > 0 completes, from any state, the
\* stored size and the configuration's width/height are (w,h) and the surface
\* has been configured exactly once, with that configuration.
C6_ValidResizeReconfigures ==
  (op.name = "resize" /\ op.width > 0 /\ op.height > 0)
  => /\ size = [width |-> op.width, height |-> op.height]
     /\ config.width = op.width /\ config.height = op.height
     /\ Count("configure") = 1
     /\ calls = << configure_call(config) >>
     /\ surface = configured_surface(config)

C6_Witness ==
  /\ op.name = "resize" /\ op.width > 0 /\ op.height > 0
  /\ op.skip
  /\ Count("configure") = 1
  /\ size.width = op.width /\ size.height = op.height

\* C7: resize(0,h) and resize(w,0) leave the stored size, the stored
\* configuration and the surface exactly as they were and make no
\* surface-configure call.
C7_DegenerateResizeIsNoOp ==
  [][ (op'.name = "resize" /\ IsDegenerate(op'))
      => /\ size' = size
         /\ config' = config
         /\ surface' = surface
         /\ Count("configure")' = 0 ]_vars

C7_Witness ==
  /\ op.name = "resize" /\ IsDegenerate(op)
  /\ surface.configured
  /\ ~IsDegenerate(size)
  /\ calls = << >>

\* C8: every render() that succeeds issues exactly one draw call, of 3
\* vertices and 1 instance, with no index buffer, after binding the pipeline
\* and binding the geometry buffer at slot 0; whatever calls came before.
C8_OneDrawPerRender ==
  (op.name = "render" /\ result = "Ok")
  => /\ Count("draw") = 1
     /\ \A i \in CallsNamed("draw") :
          /\ calls[i].vertices = 3
          /\ calls[i].instances = 1
          /\ \E j \in CallsNamed("set_pipeline") :
               j < i /\ calls[j].pipeline = render_pipeline
          /\ \E j \in CallsNamed("set_vertex_buffer") :
               j < i /\ calls[j].slot = 0 /\ calls[j].buffer = vertex_buffer
     /\ Count("set_index_buffer") = 0
     /\ Count("draw_indexed") = 0

C8_Witness ==
  /\ op.name = "render" /\ result = "Ok"
  /\ n_render >= 2
  /\ last_resize.called
  /\ Count("draw") = 1

\* C9: in every render() that presents, the commands are submitted exactly
\* once, the render pass is closed and recording finished before the
\* submission, and the submission comes before the presentation of the
\* acquired texture.
C9_SubmitBeforePresent ==
  (op.name = "render" /\ Count("present") > 0)
  => /\ Count("submit") = 1
     /\ Count("end_render_pass") = 1
     /\ Count("finish") = 1
     /\ Count("present") = 1
     /\ Before("begin_render_pass", "end_render_pass")
     /\ Before("end_render_pass", "finish")
     /\ Before("finish", "submit")
     /\ Before("submit", "present")
     /\ \A i \in CallsNamed("present"), j \in CallsNamed("get_current_texture") :
          j < i /\ calls[i].texture = calls[j].texture

C9_Witness ==
  /\ op.name = "render"
  /\ Count("present") = 1
  /\ Count("submit") = 1
  /\ calls[Len(calls)].call = "present"

\* C10: a render() made after a degenerate resize and before the next valid
\* one issues no draw; any other render() that returns issues exactly one
\* draw call and one present.
C10_SkipUntilValidResize ==
  op.name = "render"
  => IF last_resize.called /\ IsDegenerate(last_resize)
     THEN Count("draw") = 0
     ELSE result = "Ok" => (Count("draw") = 1 /\ Count("present") = 1)

\* C11: no surface-configure call is ever issued with a configuration whose
\* width or height is zero, whatever the initial size and the resize arguments.
C11_NoDegenerateConfigure ==
  \A i \in CallsNamed("configure") :
    calls[i].width > 0 /\ calls[i].height > 0

C11_Witness ==
  /\ op.name = "resize"
  /\ Count("configure") = 1
  /\ last_resize.called /\ ~IsDegenerate(last_resize)
  /\ op.skip

\* the f32 whose little-endian bytes are b
read_f32(b) == CHOOSE v \in {0, 5, -5, 10} : f32_le_bytes(v) = b

\* the vertices read back from a buffer of tightly packed 24-byte vertices
ReadBack(bytes) ==
  [ i \in 1..(Len(bytes) \div 24) |->
      LET f(k) == read_f32(SubSeq(bytes, 24 * (i - 1) + 4 * k + 1,
                                         24 * (i - 1) + 4 * k + 4))
      IN [ position |-> << f(0), f(1), f(2) >>,
           color |-> << f(3), f(4), f(5) >> ] ]

\* C12: the geometry buffer is written once, at creation, with the vertices
\* (0,0.5,0)/(1,0,0), (-0.5,-0.5,0)/(0,1,0), (0.5,-0.5,0)/(0,0,1) in this
\* order, and reads back the same after any render() and resize(); no
\* operation writes to it.
C12_BufferWriteOnce ==
  /\ ReadBack(vertex_buffer.contents) =
       << [position |-> << 0, 5, 0 >>,   color |-> << 10, 0, 0 >>],
          [position |-> << -5, -5, 0 >>, color |-> << 0, 10, 0 >>],
          [position |-> << 5, -5, 0 >>,  color |-> << 0, 0, 10 >>] >>
  /\ Count("create_buffer_init") = (IF op.name = "new" THEN 1 ELSE 0)
  /\ \A i \in CallsNamed("create_buffer_init") :
       calls[i].contents = vertex_buffer.contents
  /\ Count("write_buffer") = 0

C12_Witness ==
  /\ op.name = "render" /\ result = "Ok"
  /\ n_render >= 2
  /\ last_resize.called
  /\ Len(vertex_buffer.contents) = 72

\* C13: every render() that draws opens exactly one command encoder and in it
\* exactly one render pass, on the view of the texture acquired in that same
\* call, with load-op clear to (0.1, 0.2, 0.3, 1.0) and store-op store; the
\* colour is the same on every frame.
C13_OnePassClearColor ==
  (op.name = "render" /\ Count("draw") > 0)
  => /\ Count("create_command_encoder") = 1
     /\ Count("begin_render_pass") = 1
     /\ Count("end_render_pass") = 1
     /\ Before("create_command_encoder", "begin_render_pass")
     /\ Before("begin_render_pass", "draw")
     /\ Before("draw", "end_render_pass")
     /\ Before("end_render_pass", "finish")
     /\ \A i \in CallsNamed("begin_render_pass") :
          /\ calls[i].load = "Clear"
          /\ calls[i].color = [r |-> 1, g |-> 2, b |-> 3, a |-> 10]
          /\ calls[i].store = "Store"
          /\ \E j \in CallsNamed("get_current_texture") :
               j < i /\ calls[j].texture = calls[i].view
          /\ \E j \in CallsNamed("create_view") :
               j < i /\ calls[j].texture = calls[i].view
     /\ Count("get_current_texture") = 1

C13_Witness ==
  /\ op.name = "render"
  /\ Count("draw") = 1
  /\ Count("begin_render_pass") = 1
  /\ n_render = 2
  /\ \E i \in CallsNamed("begin_render_pass") : calls[i].view = 2

\* C14: each render() that succeeds acquires exactly one texture and presents
\* that texture exactly once; after n successful render() calls exactly n
\* frames have been presented, each on its own texture, and between calls no
\* acquired texture is left unpresented.
C14_OneFramePerRender ==
  /\ (op.name = "render" /\ result = "Ok")
     => /\ Count("get_current_texture") = 1
        /\ Count("present") = 1
        /\ \A i \in CallsNamed("get_current_texture"),
              j \in CallsNamed("present") :
             i < j /\ calls[i].texture = calls[j].texture
  /\ Len(presented) = n_ok
  /\ presented = acquired
  /\ \A i, j \in DOMAIN presented : i # j => presented[i] # presented[j]

C14_Witness ==
  /\ op.name = "render" /\ result = "Ok"
  /\ n_ok = 3
  /\ Len(presented) = 3
  /\ last_resize.called

\* C15: the configuration's format is the first sRGB format of the list the
\* adapter reported if the list has one, else the list's first element, and
\* resize() and render() never change it.
C15_FormatSelection ==
  LET srgb == { i \in DOMAIN surface_caps : is_srgb(surface_caps[i]) }
  IN /\ surface_caps # << >>
     /\ IF srgb = {}
        THEN config.format = surface_caps[1]
        ELSE \E i \in srgb :
               /\ \A j \in srgb : i <= j
               /\ config.format = surface_caps[i]

C15_Witness ==
  /\ surface_caps = << "Rgba8UnormSrgb", "Bgra8UnormSrgb" >>
  /\ config.format = "Rgba8UnormSrgb"
  /\ op.name = "render"
  /\ last_resize.called /\ ~IsDegenerate(last_resize)

\* C16: the vertex buffer layout of the pipeline has stride 24, position at
\* shader location 0 and offset 0, colour at shader location 1 and offset 12,
\* both Float32x3; this is the layout of the uploaded vertices, and the 3
\* vertices occupy exactly 72 bytes of the buffer.
C16_VertexLayout ==
  /\ Len(render_pipeline.buffers) = 1
  /\ render_pipeline.buffers[1].array_stride = 24
  /\ render_pipeline.buffers[1].attributes =
       << [offset |-> 0, shader_location |-> 0, format |-> "Float32x3"],
          [offset |-> 12, shader_location |-> 1, format |-> "Float32x3"] >>
  /\ \A i \in 1..3 :
       render_pipeline.buffers[1].array_stride = Len(vertex_bytes(VERTICES[i]))
  /\ Len(vertex_buffer.contents) = 72
  /\ num_vertices * render_pipeline.buffers[1].array_stride
       = Len(vertex_buffer.contents)

C16_Witness ==
  /\ op.name = "render" /\ result = "Ok"
  /\ \E i \in CallsNamed("set_pipeline") :
       calls[i].pipeline.buffers[1].array_stride = 24
  /\ \E i \in CallsNamed("set_vertex_buffer") :
       Len(calls[i].buffer.contents) = 72

\* C17: render() leaves size, configuration, pipeline, geometry buffer and
\* vertex count as they were; after creation only a resize() with both
\* dimensions > 0 changes size or configuration, and nothing changes the
\* pipeline, the buffer or the vertex count, which stays 3.
C17_FrameOfOperations ==
  [][ /\ render_pipeline' = render_pipeline
      /\ vertex_buffer' = vertex_buffer
      /\ num_vertices' = num_vertices
      /\ num_vertices' = 3
      /\ op'.name = "render" => (size' = size /\ config' = config)
      /\ (size' # size \/ config' # config)
         => (op'.name = "resize" /\ op'.width > 0 /\ op'.height > 0) ]_vars

C17_Witness ==
  /\ op.name = "render"
  /\ n_render >= 2
  /\ last_resize.called /\ ~IsDegenerate(last_resize)
  /\ size = [width |-> last_resize.width, height |-> last_resize.height]
  /\ num_vertices = 3

\* C18: every render() call that returns to its caller returns Ok; a failed
\* texture acquisition never reaches the caller as a returned error.
C18_RenderNeverReturnsErr ==
  op.name = "render"
  => /\ result # "panic" => result = "Ok"
     /\ FailedAcquires # {} => (result = "panic" /\ aborted)

C18_Witness ==
  /\ op.name = "render"
  /\ FailedAcquires # {}
  /\ result = "panic"
  /\ n_ok >= 1

====
